---- MODULE Spec2Model ----
(***************************************************************************)
(* Model of src/src/map_rtf_internal_citations.py: selection parsing,      *)
(* the retrying HTTP helper, and the main() pipeline that resolves the     *)
(* selected references and builds the internal-only citation graph.        *)
(*                                                                         *)
(* Representation:                                                         *)
(*   - a Python str is a sequence of one-character strings;                *)
(*   - an identity is a pair <<prefix, number>>: <<"W", k>> is an identity *)
(*     of the metadata service, <<"UNRESOLVED_REF_", n>> is the text       *)
(*     f"UNRESOLVED_REF_{n}", and <<"", 0>> is the empty string;           *)
(*   - an absent year (None) is 0: the code only ever tests years for      *)
(*     truthiness, which does not tell None from 0;                        *)
(*   - an absent DOI (None) is "".                                         *)
(***************************************************************************)
EXTENDS Integers, Sequences, FiniteSets, TLC

VARIABLES
    \* ---- parse_selection called on its own
    sel_pc, sel_in, avail_in, sel_out,
    \* ---- oa_get_json
    r_pc, r_retries, r_iter, r_backoff, r_log, r_waits, r_ret,
    \* ---- main()
    pc, refs, select, ref_map, chosen_ref_nos, rows, row_i,
    resolved, unresolved, call_log,
    G_nodes, G_edges, edges_rows, written, violations

sel_vars == <<sel_pc, sel_in, avail_in, sel_out>>
r_vars == <<r_pc, r_retries, r_iter, r_backoff, r_log, r_waits, r_ret>>
main_vars == <<pc, refs, select, ref_map, chosen_ref_nos, rows, row_i,
               resolved, unresolved, call_log,
               G_nodes, G_edges, edges_rows, written, violations>>
vars == <<sel_vars, r_vars, main_vars>>

(***************************************************************************)
(* Bounds                                                                  *)
(***************************************************************************)
\* longest selection expression handed to parse_selection on its own
MaxSelLen == 4
\* reference numbers offered as "available" to parse_selection on its own
MaxAvail == 3
\* total number of entries of the referenced_works lists the service returns in a run
MaxCited == 2

(***************************************************************************)
(* Generic helpers                                                         *)
(***************************************************************************)
Min2(a, b) == IF a <= b THEN a ELSE b
Max2(a, b) == IF a >= b THEN a ELSE b

RECURSIVE SeqsUpTo(_, _)
SeqsUpTo(S, n) ==
    IF n = 0 THEN {<<>>}
    ELSE LET shorter == SeqsUpTo(S, n - 1)
         IN  shorter \cup {Append(s, x) : s \in {t \in shorter : Len(t) = n - 1}, x \in S}

Range(s) == {s[i] : i \in 1..Len(s)}

\* sorted(S) for a finite set of integers
RECURSIVE sorted(_)
sorted(S) ==
    IF S = {} THEN <<>>
    ELSE LET m == CHOOSE x \in S : \A y \in S : x <= y
         IN  <<m>> \o sorted(S \ {m})

(***************************************************************************)
(* parse_selection  (lines 77-105)                                         *)
(***************************************************************************)
Digits == {"0", "1", "2", "3", "4", "5", "6", "7", "8", "9"}

DigitVal(c) ==
    CASE c = "0" -> 0 [] c = "1" -> 1 [] c = "2" -> 2 [] c = "3" -> 3
      [] c = "4" -> 4 [] c = "5" -> 5 [] c = "6" -> 6 [] c = "7" -> 7
      [] c = "8" -> 8 [] c = "9" -> 9

\* str.lower() on the characters the model uses
LowerChar(c) ==
    CASE c = "A" -> "a" [] c = "L" -> "l" [] OTHER -> c

lower(s) == [i \in 1..Len(s) |-> LowerChar(s[i])]

\* str.strip(): drop leading and trailing whitespace
RECURSIVE lstrip(_)
lstrip(s) == IF s # <<>> /\ Head(s) = " " THEN lstrip(Tail(s)) ELSE s

RECURSIVE rstrip(_)
rstrip(s) ==
    IF s # <<>> /\ s[Len(s)] = " " THEN rstrip(SubSeq(s, 1, Len(s) - 1)) ELSE s

strip(s) == rstrip(lstrip(s))

\* index of the first occurrence of character c in s, 0 if there is none
RECURSIVE find(_, _, _)
find(s, c, i) ==
    IF i > Len(s) THEN 0
    ELSE IF s[i] = c THEN i ELSE find(s, c, i + 1)

\* s.split(c): the pieces between the occurrences of c (always at least one)
RECURSIVE split(_, _)
split(s, c) ==
    LET k == find(s, c, 1)
    IN  IF k = 0 THEN <<s>>
        ELSE <<SubSeq(s, 1, k - 1)>> \o split(SubSeq(s, k + 1, Len(s)), c)

\* value of a non-empty string of decimal digits
RECURSIVE DigitsValue(_)
DigitsValue(s) ==
    IF s = <<>> THEN 0
    ELSE 10 * DigitsValue(SubSeq(s, 1, Len(s) - 1)) + DigitVal(s[Len(s)])

IsDigits(s) == s # <<>> /\ \A i \in 1..Len(s) : s[i] \in Digits

\* int(s): surrounding whitespace is ignored, one leading sign is accepted,
\* anything else raises ValueError
int(s) ==
    LET t == strip(s)
        neg == t # <<>> /\ Head(t) = "-"
        body == IF neg THEN Tail(t) ELSE t
    IN  IF IsDigits(body)
        THEN [ok |-> TRUE, val |-> IF neg THEN 0 - DigitsValue(body) ELSE DigitsValue(body)]
        ELSE [ok |-> FALSE, val |-> 0]

\* lines 89: parts = [p.strip() for p in selection.split(",") if p.strip()]
parts_of(selection) ==
    LET raw == split(selection, ",")
        stripped == [i \in 1..Len(raw) |-> strip(raw[i])]
    IN  SelectSeq(stripped, LAMBDA p : p # <<>>)

\* part_chosen with the range taken as written, A to B, not min to max
part_chosen_noswap(p, available_ref_nos) ==
    LET k == find(p, "-", 1)
    IN  IF k # 0
        THEN LET a_i == int(SubSeq(p, 1, k - 1))
                 b_i == int(SubSeq(p, k + 1, Len(p)))
             IN  IF a_i.ok /\ b_i.ok
                 THEN [ok |-> TRUE,
                       add |-> {x \in available_ref_nos : a_i.val <= x /\ x <= b_i.val}]
                 ELSE [ok |-> FALSE, add |-> {}]
        ELSE LET x == int(p)
             IN  IF x.ok
                 THEN [ok |-> TRUE, add |-> {x.val} \cap available_ref_nos]
                 ELSE [ok |-> FALSE, add |-> {}]

\* lines 91-101: what one part adds to `chosen`; ok = FALSE when int() raises
part_chosen(p, available_ref_nos) ==
    LET k == find(p, "-", 1)
    IN  IF k # 0
        THEN LET a_i == int(SubSeq(p, 1, k - 1))
                 b_i == int(SubSeq(p, k + 1, Len(p)))
                 lo == Min2(a_i.val, b_i.val)
                 hi == Max2(a_i.val, b_i.val)
             IN  IF a_i.ok /\ b_i.ok
                 THEN [ok |-> TRUE, add |-> {x \in available_ref_nos : lo <= x /\ x <= hi}]
                 ELSE [ok |-> FALSE, add |-> {}]
        ELSE LET x == int(p)
             IN  IF x.ok
                 THEN [ok |-> TRUE, add |-> {x.val} \cap available_ref_nos]
                 ELSE [ok |-> FALSE, add |-> {}]

\* lines 90-101: the loop over parts, stopping at the first part that raises
RECURSIVE chosen_loop(_, _, _)
chosen_loop(parts, available_ref_nos, chosen) ==
    IF parts = <<>> THEN [ok |-> TRUE, chosen |-> chosen]
    ELSE LET r == part_chosen(Head(parts), available_ref_nos)
         IN  IF r.ok
             THEN chosen_loop(Tail(parts), available_ref_nos, chosen \cup r.add)
             ELSE [ok |-> FALSE, chosen |-> chosen]

\* line 85: the shortcut for "all"
IsAll(selection) == selection = <<"a", "l", "l">>

\* the empty-selection test left out
EmptyIsError_never(chosen) == FALSE

\* lines 103-104: the empty-selection error
EmptyIsError(chosen) == chosen = {}

\* Result: [ok, err, val]; err is "" when ok, else the exception raised.
parse_selection(selection0, available_ref_nos) ==
    LET selection == lower(strip(selection0))
    IN  IF IsAll(selection)
        THEN [ok |-> TRUE, err |-> "", val |-> sorted(available_ref_nos)]
        ELSE LET r == chosen_loop(parts_of(selection), available_ref_nos, {})
             IN  IF ~r.ok
                 THEN [ok |-> FALSE, err |-> "ValueError: invalid literal for int()", val |-> <<>>]
                 ELSE IF EmptyIsError(r.chosen)
                 THEN [ok |-> FALSE, err |-> "ValueError: Selection matched no references in the RTF.",
                       val |-> <<>>]
                 ELSE [ok |-> TRUE, err |-> "", val |-> sorted(r.chosen)]

(***************************************************************************)
(* oa_get_json  (lines 118-134)                                            *)
(*                                                                         *)
(* One answer of the service to one request is a status code, or 0 when    *)
(* requests.get raises requests.RequestException.  A 200 answer carries a  *)
(* JSON body, which r.json() returns.                                      *)
(***************************************************************************)
\* line 118: retries: int = 4
DefaultRetries == 4

RequestException == 0
Answers == {RequestException, 200, 403, 404, 429, 500, 502, 503, 504}

\* line 126
TransientStatus == {429, 500, 502, 503, 504}

\* a backoff that grows by one instead of doubling
NextBackoff_linear(b) == b + 1

\* lines 128 and 133: backoff *= 2
NextBackoff(b) == b * 2

\* One pass through the body of `for _ in range(retries)` (lines 121-133).
oa_get_json_attempt ==
    /\ r_pc = "loop"
    /\ r_iter < r_retries
    /\ \E answer \in Answers :
          /\ r_log' = Append(r_log, answer)
          /\ IF answer = 200
             THEN /\ r_ret' = "json"
                  /\ r_pc' = "returned"
                  /\ UNCHANGED <<r_iter, r_backoff, r_waits>>
             ELSE IF answer \in TransientStatus \/ answer = RequestException
             THEN /\ r_waits' = Append(r_waits, r_backoff)
                  /\ r_backoff' = NextBackoff(r_backoff)
                  /\ r_iter' = r_iter + 1
                  /\ UNCHANGED <<r_ret, r_pc>>
             ELSE /\ r_ret' = "None"
                  /\ r_pc' = "returned"
                  /\ UNCHANGED <<r_iter, r_backoff, r_waits>>
    /\ UNCHANGED <<r_retries, sel_vars, main_vars>>

\* The loop has run `retries` times: line 134, return None.
oa_get_json_exhausted ==
    /\ r_pc = "loop"
    /\ r_iter >= r_retries
    /\ r_ret' = "None"
    /\ r_pc' = "returned"
    /\ UNCHANGED <<r_retries, r_iter, r_backoff, r_log, r_waits, sel_vars, main_vars>>

(***************************************************************************)
(* The metadata service as main() sees it                                  *)
(*                                                                         *)
(* oa_work_by_doi and oa_search_by_title_year (lines 137-160) return what  *)
(* oa_get_json returns: None, or the decoded JSON body.                    *)
(***************************************************************************)
EmptyId == <<"", 0>>
\* line 242: f"UNRESOLVED_REF_{ref_no}"
Placeholder(ref_no) == <<"UNRESOLVED_REF_", ref_no>>

\* a work record of the service: the fields main() reads
WorkDict(id, year, referenced_works) ==
    [kind |-> "dict", id |-> id, publication_year |-> year,
     referenced_works |-> referenced_works]

NoneAnswer == [kind |-> "None", id |-> EmptyId, publication_year |-> 0,
               referenced_works |-> <<>>]
\* the JSON object {}
EmptyDict == [kind |-> "empty", id |-> EmptyId, publication_year |-> 0,
              referenced_works |-> <<>>]

\* Python truthiness of an Optional[dict]
TruthyDict(d) == d.kind = "dict"

\* normalize_oa (lines 163-170), restricted to the fields the graph uses
NoneWork == [some |-> FALSE, id |-> EmptyId, year |-> 0, referenced_works |-> <<>>]
normalize_oa(w) ==
    [some |-> TRUE, id |-> w.id, year |-> w.publication_year,
     referenced_works |-> w.referenced_works]

\* line 217: if r["doi"]
DoiLookupMade(r) == r.doi # ""

\* line 222: if w is None  (the search is the fallback)
SearchNeeded(w) == ~w.some

\* lines 215-225: w after the DOI lookup answered `data`
work_after_doi(r, data) ==
    IF DoiLookupMade(r) /\ TruthyDict(data) THEN normalize_oa(data) ELSE NoneWork

\* lines 222-225: w after the search answered `sr` (a sequence of results, or None)
work_after_search(w, sr) ==
    IF SearchNeeded(w)
    THEN IF sr.kind = "dict" /\ sr.results # <<>>
         THEN normalize_oa(sr.results[1])
         ELSE NoneWork
    ELSE w

\* line 227: if w is None or not w.id
IsUnresolved(w) == ~w.some \/ w.id = EmptyId

(***************************************************************************)
(* main(): graph construction  (lines 232-279)                             *)
(***************************************************************************)
Known(y) == y # 0

\* lines 238-242
node_id_of(ref_no, res) ==
    IF ref_no \in DOMAIN res THEN res[ref_no].id ELSE Placeholder(ref_no)

\* position of the last row whose node id is nid
LastRowWith(nid, rws, res) ==
    CHOOSE i \in 1..Len(rws) :
        /\ node_id_of(rws[i].ref_no, res) = nid
        /\ \A j \in (i + 1)..Len(rws) : node_id_of(rws[j].ref_no, res) # nid

\* line 246
allowed_node_ids_of(rws, res) == {node_id_of(rws[i].ref_no, res) : i \in 1..Len(rws)}

\* the comprehension written with the loop variable left over from lines 239-242,
\* {nid: ref_no for ref, nid in ...}: every node id maps to the last row's ref_no
ref_by_node_id_of_stale(rws, res) ==
    [nid \in allowed_node_ids_of(rws, res) |-> rws[Len(rws)].ref_no]

\* line 245: a dict comprehension, so a later ref with the same node id wins
ref_by_node_id_of(rws, res) ==
    [nid \in allowed_node_ids_of(rws, res) |-> rws[LastRowWith(nid, rws, res)].ref_no]

\* line 254
pub_year_of(r, res) ==
    IF r.ref_no \in DOMAIN res /\ Known(res[r.ref_no].year)
    THEN res[r.ref_no].year
    ELSE r.pub_year_guess

\* lines 249-265: G.add_node on an existing node overwrites its attributes
nodes_of(rws, res) ==
    [nid \in allowed_node_ids_of(rws, res) |->
        LET r == rws[LastRowWith(nid, rws, res)]
        IN  [ref_no |-> r.ref_no, pub_year |-> pub_year_of(r, res)]]

\* line 272: if tgt in allowed_node_ids
EdgeAllowed(tgt, allowed) == tgt \in allowed

\* lines 271-279 for one resolved reference: the targets that pass the test, in order
internal_targets(w, allowed) ==
    SelectSeq(w.referenced_works, LAMBDA tgt : EdgeAllowed(tgt, allowed))

\* the references main() iterates at line 269: resolved.items(), in insertion order
resolved_order(rws, res) ==
    SelectSeq([i \in 1..Len(rws) |-> rws[i].ref_no], LAMBDA n : n \in DOMAIN res)

\* lines 268-279: edges_rows
RECURSIVE edges_rows_of(_, _, _)
edges_rows_of(order, rws, res) ==
    IF order = <<>> THEN <<>>
    ELSE LET ref_no == Head(order)
             src == node_id_of(ref_no, res)
             by == ref_by_node_id_of(rws, res)
             tgts == internal_targets(res[ref_no], allowed_node_ids_of(rws, res))
         IN  [k \in 1..Len(tgts) |->
                 [citing_ref_no |-> by[src], cited_ref_no |-> by[tgts[k]]]]
             \o edges_rows_of(Tail(order), rws, res)

\* G.add_edge placed before the membership test of line 272
edges_of_unfiltered(rws, res) ==
    UNION { { <<node_id_of(n, res), tgt>> : tgt \in Range(res[n].referenced_works) } :
            n \in DOMAIN res }

\* lines 268-273: the edges of G
edges_of(rws, res) ==
    UNION { { <<node_id_of(n, res), tgt>> :
                tgt \in Range(internal_targets(res[n], allowed_node_ids_of(rws, res))) } :
            n \in DOMAIN res }

(***************************************************************************)
(* main(): time-order check  (lines 317-328)                               *)
(***************************************************************************)
\* lines 318-321
year_by_ref_of(rws, res) ==
    [n \in {rws[i].ref_no : i \in 1..Len(rws)} |->
        LET r == CHOOSE x \in Range(rws) : x.ref_no = n
        IN  IF n \in DOMAIN res /\ Known(res[n].year) THEN res[n].year ELSE r.pub_year_guess]

\* the comparison of line 327 written as <=
IsViolation_nonstrict(ya, yb) == Known(ya) /\ Known(yb) /\ ya <= yb

\* line 327
IsViolation(ya, yb) == Known(ya) /\ Known(yb) /\ ya < yb

\* lines 323-328
RECURSIVE violations_of(_, _)
violations_of(erows, year_by_ref) ==
    IF erows = <<>> THEN <<>>
    ELSE LET a == Head(erows).citing_ref_no
             b == Head(erows).cited_ref_no
             ya == year_by_ref[a]
             yb == year_by_ref[b]
         IN  (IF IsViolation(ya, yb) THEN << <<a, b, ya, yb>> >> ELSE <<>>)
             \o violations_of(Tail(erows), year_by_ref)

(***************************************************************************)
(* Idle values of the components a specification does not run              *)
(***************************************************************************)
SelIdle ==
    /\ sel_pc = "idle"
    /\ sel_in = <<>>
    /\ avail_in = {}
    /\ sel_out = [ok |-> FALSE, err |-> "", val |-> <<>>]

RetryIdle ==
    /\ r_pc = "idle"
    /\ r_retries = 0
    /\ r_iter = 0
    /\ r_backoff = 1
    /\ r_log = <<>>
    /\ r_waits = <<>>
    /\ r_ret = "running"

MainIdle ==
    /\ pc = "idle"
    /\ refs = <<>>
    /\ select = <<>>
    /\ ref_map = <<>>
    /\ chosen_ref_nos = <<>>
    /\ rows = <<>>
    /\ row_i = 0
    /\ resolved = <<>>
    /\ unresolved = <<>>
    /\ call_log = <<>>
    /\ G_nodes = <<>>
    /\ G_edges = {}
    /\ edges_rows = <<>>
    /\ written = {}
    /\ violations = <<>>

(***************************************************************************)
(* SpecSel: parse_selection applied to every bounded input                 *)
(***************************************************************************)
SelChars == {"1", "3", ",", "-", "x"}

SelInputs ==
    SeqsUpTo(SelChars, MaxSelLen)
        \cup { <<"a", "l", "l">>, <<"A", "L", "L">>, <<" ", "a", "l", "l", " ">>,
               <<"a", "l">>, <<" ", "1", " ", ",", " ", "3", " ">>,
               <<"1", " ", "-", " ", "3">>, <<"1", " ", "3">>, <<" ">> }

InitSel ==
    /\ sel_pc = "call"
    /\ sel_in \in SelInputs
    /\ avail_in \in SUBSET (1..MaxAvail)
    /\ sel_out = [ok |-> FALSE, err |-> "", val |-> <<>>]
    /\ RetryIdle
    /\ MainIdle

call_parse_selection ==
    /\ sel_pc = "call"
    /\ sel_out' = parse_selection(sel_in, avail_in)
    /\ sel_pc' = "returned"
    /\ UNCHANGED <<sel_in, avail_in, r_vars, main_vars>>

NextSel == call_parse_selection

SpecSel == InitSel /\ [][NextSel]_vars

(***************************************************************************)
(* SpecRetry: oa_get_json against every sequence of answers                *)
(***************************************************************************)
InitRetry ==
    /\ r_pc = "loop"
    /\ r_retries \in 0..DefaultRetries
    /\ r_iter = 0
    /\ r_backoff = 1
    /\ r_log = <<>>
    /\ r_waits = <<>>
    /\ r_ret = "running"
    /\ SelIdle
    /\ MainIdle

NextRetry == oa_get_json_attempt \/ oa_get_json_exhausted

SpecRetry == InitRetry /\ [][NextRetry]_vars

(***************************************************************************)
(* Inputs of main()                                                        *)
(***************************************************************************)
\* the reference numbers the documents of the model carry
RefNos == {1, 2}
Years == {2010, 2015}
\* extract_doi (lines 54-56): a DOI or None
Dois == {"", "10.1000/x"}
\* extract_pub_year (lines 69-73): a year or None
GuessYears == {0, 2012}
\* publication_year of a service record: a year or null
CanonYears == {0} \cup Years

\* identities the service gives its works
Ids == {<<"W", 1>>, <<"W", 2>>}
\* strings that can occur in a referenced_works list
RefIds == Ids \cup {Placeholder(n) : n \in RefNos}

\* split_numbered_refs (lines 41-51) with the field extraction of lines 203-205
\* applied: the references of a document, in document order
DocOver(S) ==
    LET order == sorted(S)
    IN  { [i \in 1..Len(order) |->
              [ref_no |-> order[i], doi |-> d[order[i]], pub_year_guess |-> g[order[i]]]] :
          d \in [S -> Dois], g \in [S -> GuessYears] }

Docs == UNION {DocOver(S) : S \in SUBSET RefNos}

\* --select
MainSelects ==
    { <<"a", "l", "l">>, <<"2">>, <<"9">>, <<"x">> }

\* entries of referenced_works already returned in this run
RECURSIVE SumLen(_, _)
SumLen(res, S) ==
    IF S = {} THEN 0
    ELSE LET n == CHOOSE x \in S : TRUE
         IN  Len(res[n].referenced_works) + SumLen(res, S \ {n})

Remaining(res) == MaxCited - SumLen(res, DOMAIN res)

NoIdWork == WorkDict(EmptyId, 0, <<>>)
UsableWorks(rem) ==
    { WorkDict(id, y, l) : id \in Ids, y \in CanonYears, l \in SeqsUpTo(RefIds, rem) }

DoiAnswers(rem) == {NoneAnswer, EmptyDict, NoIdWork} \cup UsableWorks(rem)

SearchAnswers(rem) ==
    { [kind |-> "None", results |-> <<>>], [kind |-> "dict", results |-> <<>>] }
        \cup { [kind |-> "dict", results |-> <<w>>] : w \in {NoIdWork} \cup UsableWorks(rem) }

NoCall == [ref_no |-> 0, doi |-> "none", searched |-> FALSE, search_id |-> EmptyId]

(***************************************************************************)
(* main(): the steps                                                       *)
(***************************************************************************)
\* lines 182-190
main_segment ==
    /\ pc = "start"
    /\ IF refs = <<>>
       THEN /\ pc' = "aborted"
            /\ UNCHANGED ref_map
       ELSE /\ pc' = "select"
            /\ ref_map' = [n \in {refs[i].ref_no : i \in 1..Len(refs)} |->
                              refs[CHOOSE i \in 1..Len(refs) :
                                      /\ refs[i].ref_no = n
                                      /\ \A j \in (i + 1)..Len(refs) : refs[j].ref_no # n]]
    /\ UNCHANGED <<refs, select, chosen_ref_nos, rows, row_i, resolved, unresolved,
                   call_log, G_nodes, G_edges, edges_rows, written, violations,
                   sel_vars, r_vars>>

\* lines 192-207
main_select ==
    /\ pc = "select"
    /\ LET r == parse_selection(select, DOMAIN ref_map)
       IN  IF r.ok
           THEN /\ chosen_ref_nos' = r.val
                /\ rows' = [i \in 1..Len(r.val) |-> ref_map[r.val[i]]]
                /\ row_i' = 1
                /\ pc' = "resolve"
           ELSE /\ pc' = "aborted"
                /\ UNCHANGED <<chosen_ref_nos, rows, row_i>>
    /\ UNCHANGED <<refs, select, ref_map, resolved, unresolved,
                   call_log, G_nodes, G_edges, edges_rows, written, violations,
                   sel_vars, r_vars>>

\* lines 227-230, with what the calls of this pass were
resolve_finish(r, w, doi_kind, searched, search_id) ==
    /\ IF IsUnresolved(w)
       THEN /\ unresolved' = Append(unresolved, r.ref_no)
            /\ UNCHANGED resolved
       ELSE /\ resolved' = [n \in DOMAIN resolved \cup {r.ref_no} |->
                               IF n = r.ref_no THEN w ELSE resolved[n]]
            /\ UNCHANGED unresolved
    /\ call_log' = [ref_no |-> r.ref_no, doi |-> doi_kind, searched |-> searched,
                    search_id |-> search_id]
    /\ row_i' = row_i + 1

\* lines 213-230: one pass of the resolution loop
main_resolve_ref ==
    /\ pc = "resolve"
    /\ row_i <= Len(rows)
    /\ LET r == rows[row_i]
           rem == Remaining(resolved)
       IN  \E data \in (IF DoiLookupMade(r) THEN DoiAnswers(rem) ELSE {NoneAnswer}) :
              LET w1 == work_after_doi(r, data)
                  doi_kind == IF r.doi = "" THEN "no_doi"
                              ELSE IF data.kind # "dict" THEN "no_result"
                              ELSE IF data.id = EmptyId THEN "no_identity"
                              ELSE "usable"
              IN  IF SearchNeeded(w1)
                  THEN \E sr \in SearchAnswers(rem) :
                          resolve_finish(r, work_after_search(w1, sr), doi_kind, TRUE,
                                         IF sr.results = <<>> THEN EmptyId
                                         ELSE sr.results[1].id)
                  ELSE resolve_finish(r, w1, doi_kind, FALSE, EmptyId)
    /\ UNCHANGED <<pc, refs, select, ref_map, chosen_ref_nos, rows,
                   G_nodes, G_edges, edges_rows, written, violations,
                   sel_vars, r_vars>>

\* lines 232-279, entered when the resolution loop is exhausted
main_build_graph ==
    /\ pc = "resolve"
    /\ row_i > Len(rows)
    /\ G_nodes' = nodes_of(rows, resolved)
    /\ G_edges' = edges_of(rows, resolved)
    /\ edges_rows' = edges_rows_of(resolved_order(rows, resolved), rows, resolved)
    /\ call_log' = NoCall
    /\ pc' = "write_graphml"
    /\ UNCHANGED <<refs, select, ref_map, chosen_ref_nos, rows, row_i, resolved,
                   unresolved, written, violations, sel_vars, r_vars>>

\* line 286
main_write_graphml ==
    /\ pc = "write_graphml"
    /\ written' = written \cup {"graphml"}
    /\ pc' = "write_nodes_csv"
    /\ UNCHANGED <<refs, select, ref_map, chosen_ref_nos, rows, row_i, resolved,
                   unresolved, call_log, G_nodes, G_edges, edges_rows, violations,
                   sel_vars, r_vars>>

\* lines 288-314
main_write_nodes_csv ==
    /\ pc = "write_nodes_csv"
    /\ written' = written \cup {"nodes_csv"}
    /\ pc' = "write_edges_csv"
    /\ UNCHANGED <<refs, select, ref_map, chosen_ref_nos, rows, row_i, resolved,
                   unresolved, call_log, G_nodes, G_edges, edges_rows, violations,
                   sel_vars, r_vars>>

\* line 315
main_write_edges_csv ==
    /\ pc = "write_edges_csv"
    /\ written' = written \cup {"edges_csv"}
    /\ pc' = "time_order"
    /\ UNCHANGED <<refs, select, ref_map, chosen_ref_nos, rows, row_i, resolved,
                   unresolved, call_log, G_nodes, G_edges, edges_rows, violations,
                   sel_vars, r_vars>>

\* lines 317-345
main_time_order_check ==
    /\ pc = "time_order"
    /\ violations' = violations_of(edges_rows, year_by_ref_of(rows, resolved))
    /\ pc' = "done"
    /\ UNCHANGED <<refs, select, ref_map, chosen_ref_nos, rows, row_i, resolved,
                   unresolved, call_log, G_nodes, G_edges, edges_rows, written,
                   sel_vars, r_vars>>

(***************************************************************************)
(* Spec: one run of main()                                                 *)
(***************************************************************************)
Init ==
    /\ pc = "start"
    /\ refs \in Docs
    /\ select \in MainSelects
    /\ ref_map = <<>>
    /\ chosen_ref_nos = <<>>
    /\ rows = <<>>
    /\ row_i = 0
    /\ resolved = <<>>
    /\ unresolved = <<>>
    /\ call_log = NoCall
    /\ G_nodes = <<>>
    /\ G_edges = {}
    /\ edges_rows = <<>>
    /\ written = {}
    /\ violations = <<>>
    /\ SelIdle
    /\ RetryIdle

Next ==
    \/ main_segment
    \/ main_select
    \/ main_resolve_ref
    \/ main_build_graph
    \/ main_write_graphml
    \/ main_write_nodes_csv
    \/ main_write_edges_csv
    \/ main_time_order_check

Spec == Init /\ [][Next]_vars

(***************************************************************************)
(* Vocabulary of the properties                                            *)
(***************************************************************************)
\* main() is past the graph-building step
GraphBuilt == pc \in {"write_graphml", "write_nodes_csv", "write_edges_csv",
                      "time_order", "done"}

Selected == Range(chosen_ref_nos)

\* the node standing for a selected reference: the identity it resolved to, or
\* its placeholder
NodeFor(n) == IF n \in DOMAIN resolved THEN resolved[n].id ELSE Placeholder(n)

SelectedNodeSet == {NodeFor(n) : n \in Selected}

AllFiles == {"graphml", "nodes_csv", "edges_csv"}

\* ---- what a selection expression denotes, token by token

\* s[i..j] is a token: a maximal stretch without a comma
IsToken(s, i, j) ==
    /\ 1 <= i /\ i <= j /\ j <= Len(s)
    /\ \A k \in i..j : s[k] # ","
    /\ (i = 1 \/ s[i - 1] = ",")
    /\ (j = Len(s) \/ s[j + 1] = ",")

\* the numbers a token names: itself, or every integer between its two ends
TokenNames(t) ==
    IF IsDigits(t) THEN {DigitsValue(t)}
    ELSE UNION { IF /\ t[k] = "-"
                    /\ IsDigits(SubSeq(t, 1, k - 1))
                    /\ IsDigits(SubSeq(t, k + 1, Len(t)))
                 THEN LET A == DigitsValue(SubSeq(t, 1, k - 1))
                          B == DigitsValue(SubSeq(t, k + 1, Len(t)))
                      IN  {x \in Min2(A, B)..Max2(A, B) : TRUE}
                 ELSE {} : k \in 1..Len(t) }

IsWellFormedToken(t) ==
    \/ IsDigits(t)
    \/ \E k \in 1..Len(t) :
          /\ t[k] = "-"
          /\ IsDigits(SubSeq(t, 1, k - 1))
          /\ IsDigits(SubSeq(t, k + 1, Len(t)))

WellFormed(s) ==
    /\ s # <<>>
    /\ s[1] # "," /\ s[Len(s)] # ","
    /\ \A k \in 1..(Len(s) - 1) : ~(s[k] = "," /\ s[k + 1] = ",")
    /\ \A i \in 1..Len(s) : \A j \in i..Len(s) :
          IsToken(s, i, j) => IsWellFormedToken(SubSeq(s, i, j))

Named(s) ==
    UNION { IF IsToken(s, i, j) THEN TokenNames(SubSeq(s, i, j)) ELSE {} :
            i \in 1..Len(s), j \in 1..Len(s) }

Ascending(q) == \A i \in 1..(Len(q) - 1) : q[i] < q[i + 1]

\* ---- the fatal conditions of a run, read off its inputs
AvailableInDoc == {refs[i].ref_no : i \in 1..Len(refs)}
NoNumberedRefs == refs = <<>>
SelectsAll == select = <<"a", "l", "l">>
MalformedSelect == ~SelectsAll /\ ~WellFormed(select)
MatchesNothing ==
    IF SelectsAll THEN AvailableInDoc = {} ELSE Named(select) \cap AvailableInDoc = {}
FatalCondition == NoNumberedRefs \/ MalformedSelect \/ MatchesNothing

\* the run is at one of its steps, and inside the resolution loop the index
\* is a row still to resolve or the loop's exit
RunCanContinue ==
    /\ pc \in {"start", "select", "resolve", "write_graphml", "write_nodes_csv",
               "write_edges_csv", "time_order", "aborted", "done"}
    /\ pc = "resolve" => rows # <<>> /\ row_i \in 1..(Len(rows) + 1)

\* ---- best-known years and the rows the chronology check must report
GuessOf(n) == (CHOOSE r \in Range(rows) : r.ref_no = n).pub_year_guess

BestKnownYear(n) ==
    IF n \in DOMAIN resolved /\ resolved[n].year # 0 THEN resolved[n].year ELSE GuessOf(n)

EarlierCitesLater(e) ==
    /\ BestKnownYear(e.citing_ref_no) # 0
    /\ BestKnownYear(e.cited_ref_no) # 0
    /\ BestKnownYear(e.citing_ref_no) < BestKnownYear(e.cited_ref_no)

ExpectedViolations ==
    LET bad == SelectSeq(edges_rows, EarlierCitesLater)
    IN  [k \in 1..Len(bad) |->
            <<bad[k].citing_ref_no, bad[k].cited_ref_no,
              BestKnownYear(bad[k].citing_ref_no), BestKnownYear(bad[k].cited_ref_no)>>]

\* ---- retry vocabulary
RECURSIVE Pow2(_)
Pow2(k) == IF k = 0 THEN 1 ELSE 2 * Pow2(k - 1)

IsTransient(a) == a \in {429, 500, 502, 503, 504} \/ a = RequestException

(***************************************************************************)
(* C1  Internal-only edges: once the graph is built, every edge of G and   *)
(* every row of the edges table has both endpoints among the nodes of the  *)
(* selected references, and an identity listed in referenced_works that    *)
(* is no selected reference's node id is the target of no edge.            *)
(***************************************************************************)
C1_InternalOnlyEdges ==
    GraphBuilt =>
        /\ \A e \in G_edges : e[1] \in SelectedNodeSet /\ e[2] \in SelectedNodeSet
        /\ \A e \in G_edges : e[1] \in DOMAIN G_nodes /\ e[2] \in DOMAIN G_nodes
        /\ \A i \in 1..Len(edges_rows) :
              /\ edges_rows[i].citing_ref_no \in Selected
              /\ edges_rows[i].cited_ref_no \in Selected
        /\ \A n \in DOMAIN resolved :
              \A tgt \in Range(resolved[n].referenced_works) :
                  tgt \notin SelectedNodeSet => \A e \in G_edges : e[2] # tgt

\* a finished run with an internal edge and a listed identity outside the selection
C1_Witness ==
    /\ pc = "done"
    /\ G_edges # {}
    /\ \E n \in DOMAIN resolved :
          \E tgt \in Range(resolved[n].referenced_works) : tgt \notin SelectedNodeSet

(***************************************************************************)
(* C2  One node per selected reference: once the nodes are added, the      *)
(* graph has as many nodes as there are selected ref_no values and every   *)
(* selected ref_no is the ref_no attribute of exactly one node.            *)
(***************************************************************************)
C2_OneNodePerSelected ==
    GraphBuilt =>
        /\ Cardinality(DOMAIN G_nodes) = Cardinality(Selected)
        /\ \A n \in Selected :
              Cardinality({nid \in DOMAIN G_nodes : G_nodes[nid].ref_no = n}) = 1

C4_SearchIsTheFallback ==
    (pc = "resolve" /\ call_log.ref_no # 0 /\ call_log.doi # "usable") =>
        /\ call_log.searched
        /\ call_log.search_id # EmptyId =>
              /\ call_log.ref_no \in DOMAIN resolved
              /\ resolved[call_log.ref_no].id = call_log.search_id
              /\ call_log.ref_no \notin Range(unresolved)

(***************************************************************************)
(* C5  parse_selection never returns an empty list: for every selection    *)
(* expression and every available set it raises or returns a non-empty     *)
(* list.                                                                   *)
(***************************************************************************)
C5_NeverReturnsEmpty ==
    (sel_pc = "returned" /\ sel_out.ok) => sel_out.val # <<>>

(***************************************************************************)
(* C6  For a well-formed expression (comma-separated integers and ranges   *)
(* A-B), a returning parse_selection gives the ascending, duplicate-free   *)
(* list of exactly the available numbers some token names, a range naming  *)
(* min(A,B)..max(A,B); named numbers that are not available are left out   *)
(* without error; "all" gives every available number, ascending.           *)
(***************************************************************************)
C6_ReturnsNamedAvailable ==
    sel_pc = "returned" =>
        /\ WellFormed(sel_in) =>
              /\ sel_out.ok <=> (Named(sel_in) \cap avail_in # {})
              /\ sel_out.ok =>
                    /\ Range(sel_out.val) = Named(sel_in) \cap avail_in
                    /\ Ascending(sel_out.val)
        /\ sel_in = <<"a", "l", "l">> =>
              /\ sel_out.ok
              /\ Range(sel_out.val) = avail_in
              /\ Ascending(sel_out.val)

\* a reversed range that names an unavailable number and two available ones
C6_Witness ==
    /\ sel_pc = "returned"
    /\ sel_in = <<"3", "-", "1">>
    /\ avail_in = {1, 3}
    /\ sel_out.ok
    /\ sel_out.val = <<1, 3>>

C8_ChronologyCheck ==
    /\ [](pc = "done" => violations = ExpectedViolations)
    /\ [][pc = "time_order" => (G_edges' = G_edges /\ edges_rows' = edges_rows)]_vars

\* a finished run that reports a violation, and whose table also holds a row
\* with equal years and a row with an unknown year
C8_Witness ==
    /\ pc = "done"
    /\ violations # <<>>
    /\ Len(edges_rows) > Len(violations)
    /\ \E k \in 1..Len(edges_rows) :
          BestKnownYear(edges_rows[k].citing_ref_no) # 0
              /\ BestKnownYear(edges_rows[k].citing_ref_no)
                    = BestKnownYear(edges_rows[k].cited_ref_no)

(***************************************************************************)
(* C9  No partial output: a fatal condition (no numbered references, a     *)
(* selection matching no available reference, a malformed selection token) *)
(* aborts the run with none of the three files written; a run that passes  *)
(* selection parsing goes on to write all three whatever the resolution    *)
(* outcomes are.                                                           *)
(***************************************************************************)
C9_NoPartialOutput ==
    /\ FatalCondition => written = {} /\ pc \in {"start", "select", "aborted"}
    /\ pc = "aborted" => written = {} /\ FatalCondition
    /\ pc = "done" => written = AllFiles
    /\ RunCanContinue
    /\ (~FatalCondition /\ pc \notin {"start", "select"}) =>
          (pc \in {"resolve", "write_graphml"} <=> written = {})

\* a finished run that wrote the three files although a reference stayed unresolved
C9_Witness ==
    /\ pc = "done"
    /\ written = AllFiles
    /\ unresolved # <<>>
    /\ resolved # <<>>

(***************************************************************************)
(* C10  The edges table agrees with the graph: one row per edge of G, and  *)
(* each row's citing_ref_no is the resolved reference whose                *)
(* referenced_works list produced the edge.                                *)
(***************************************************************************)
C10_RowsAgreeWithGraph ==
    GraphBuilt =>
        /\ Len(edges_rows) = Cardinality(G_edges)
        /\ \A k \in 1..Len(edges_rows) :
              LET a == edges_rows[k].citing_ref_no
                  b == edges_rows[k].cited_ref_no
              IN  /\ a \in DOMAIN resolved
                  /\ <<NodeFor(a), NodeFor(b)>> \in G_edges
                  /\ NodeFor(b) \in Range(resolved[a].referenced_works)
        /\ \A n \in DOMAIN resolved :
              \A tgt \in Range(resolved[n].referenced_works) :
                  tgt \in SelectedNodeSet =>
                      \E k \in 1..Len(edges_rows) :
                          /\ edges_rows[k].citing_ref_no = n
                          /\ NodeFor(edges_rows[k].cited_ref_no) = tgt

====
